---- MODULE Spec2Model ----
(***************************************************************************)
(* Model of the OpenDART ingest utilities:                                 *)
(*   src/crawling/opendart_ingest.py  registry lookup, report discovery,   *)
(*                                    bundle download                      *)
(*   src/crawling/opendart_parse.py   main-entry selection, decoding,      *)
(*                                    text extraction                      *)
(*                                                                         *)
(* Strings on which the code looks inside (titles, file names, company     *)
(* names, receipt dates) are sequences of one-character tokens.  A Hangul  *)
(* syllable is one token, written in romanised form because the module is  *)
(* ASCII: "sa","eop","bo","go","seo" spell the business-report marker,     *)
(* "jeong","jeong" the amendment marker, "bon","mun" the body-text marker. *)
(*                                                                         *)
(* Every component has its own specification (SpecClassify, SpecDiscover,  *)
(* SpecRegistry, SpecEntry, SpecExtract); the variables of the other       *)
(* components stay at their idle values.                                   *)
(***************************************************************************)
EXTENDS Integers, Sequences, FiniteSets, TLC

VARIABLES
    \* _is_business_report applied to one title
    report_nm, verdict, kept, c_pc,
    \* list_latest_business_report / download_document_zip
    pc, page_no, best, requests, responses, fetched, result,
    dl_pc, dl_requests, dl_responses,
    \* choose_main_entry
    names, rcept_no, entry, e_pc,
    \* load_corp_codes / get_corp_code_* / get_latest_business_report_by_corp_name
    ref_file, corp_name, corp_df, corp_code, r_pc, r_requests, calls, loads,
    \* _decode_kr / extract_text_from_zip_entry
    x_pc, zf, data, txt, root, html_called, text, exc

cvars == <<report_nm, verdict, kept, c_pc>>
dvars == <<pc, page_no, best, requests, responses, fetched, result,
           dl_pc, dl_requests, dl_responses>>
evars == <<names, rcept_no, entry, e_pc>>
rvars == <<ref_file, corp_name, corp_df, corp_code, r_pc, r_requests, calls, loads>>
xvars == <<x_pc, zf, data, txt, root, html_called, text, exc>>
vars == <<cvars, dvars, evars, rvars, xvars>>

notC == <<dvars, evars, rvars, xvars>>
notD == <<cvars, evars, rvars, xvars>>
notE == <<cvars, dvars, rvars, xvars>>
notR == <<cvars, dvars, evars, xvars>>
notX == <<cvars, dvars, evars, rvars>>

(***************************************************************************)
(* Bounds of the model.                                                    *)
(***************************************************************************)
MaxChunks == 3
MaxPages == 2
MaxHead == 2

(***************************************************************************)
(* Python str operations on token sequences.                               *)
(***************************************************************************)
StartsAt(s, sub, i) ==
    /\ i + Len(sub) - 1 <= Len(s)
    /\ \A k \in 1..Len(sub) : s[i + k - 1] = sub[k]

RECURSIVE Find(_, _, _)
Find(s, sub, i) ==
    IF i + Len(sub) - 1 > Len(s) THEN 0
    ELSE IF StartsAt(s, sub, i) THEN i
    ELSE Find(s, sub, i + 1)

\* `sub in s`
Contains(s, sub) == Find(s, sub, 1) # 0

\* Substring occurrence stated by position; the properties and the record of
\* fetched items use it, the code's operators use Find.
Occurs(s, sub) ==
    \E i \in 1..(Len(s) - Len(sub) + 1) : SubSeq(s, i, i + Len(sub) - 1) = sub

RECURSIVE Concat(_)
Concat(ss) == IF ss = <<>> THEN <<>> ELSE Head(ss) \o Concat(Tail(ss))

RECURSIVE SeqsUpTo(_, _)
SeqsUpTo(S, n) ==
    IF n = 0 THEN {<<>>}
    ELSE LET R == SeqsUpTo(S, n - 1)
         IN  R \cup {Append(r, x) : r \in {q \in R : Len(q) = n - 1}, x \in S}

(***************************************************************************)
(* _is_business_report (opendart_ingest.py:96-97)                          *)
(***************************************************************************)
BUSINESS_REPORT == <<"sa", "eop", "bo", "go", "seo">>
AMENDMENT == <<"jeong", "jeong">>

\* A slip: the amendment marker is only looked for behind the report marker.
IsBusinessReportSuffixOnly(nm) ==
    /\ Contains(nm, BUSINESS_REPORT)
    /\ ~Contains(SubSeq(nm, Find(nm, BUSINESS_REPORT, 1), Len(nm)), AMENDMENT)

is_business_report(nm) ==
    Contains(nm, BUSINESS_REPORT) /\ ~Contains(nm, AMENDMENT)

\* line 118: the filter applied to one page's list
FilterItems(list) == SelectSeq(list, LAMBDA it : is_business_report(it.report_nm))

TitleChunks ==
    { BUSINESS_REPORT, <<"jeong">>, <<"bun", "gi">>, <<"sa", "eop">>,
      <<"bo", "go", "seo">> }

Titles == {Concat(cs) : cs \in SeqsUpTo(TitleChunks, MaxChunks)}

TitleItem(nm) == [rcept_no |-> "A", rcept_dt |-> <<>>, report_nm |-> nm]

IdleClassify ==
    /\ report_nm = <<>>
    /\ verdict = FALSE
    /\ kept = <<>>
    /\ c_pc = "idle"

InitClassify ==
    /\ report_nm \in Titles
    /\ verdict = FALSE
    /\ kept = <<>>
    /\ c_pc = "start"

Classify ==
    /\ c_pc = "start"
    /\ verdict' = is_business_report(report_nm)
    /\ kept' = FilterItems(<<TitleItem(report_nm)>>)
    /\ c_pc' = "done"
    /\ UNCHANGED <<report_nm, notC>>

(***************************************************************************)
(* list_latest_business_report (opendart_ingest.py:99-128)                 *)
(***************************************************************************)
page_count == 100

None == [none |-> TRUE]

GOOD == BUSINESS_REPORT
AMENDED == AMENDMENT \o BUSINESS_REPORT
QUARTERLY == <<"bun", "gi", "bo", "go", "seo">>

\* Listing items the server may return.  rcept_dt is a digit string; <<>> is
\* a missing or empty rcept_dt (it.get("rcept_dt", "")).
ItemSet ==
    { [rcept_no |-> "A", rcept_dt |-> <<2>>,    report_nm |-> GOOD],
      [rcept_no |-> "B", rcept_dt |-> <<1, 0>>, report_nm |-> GOOD],
      [rcept_no |-> "C", rcept_dt |-> <<2>>,    report_nm |-> GOOD],
      [rcept_no |-> "D", rcept_dt |-> <<3>>,    report_nm |-> AMENDED],
      [rcept_no |-> "E", rcept_dt |-> <<>>,     report_nm |-> GOOD] }

\* A page's list is `head` followed by `pad` copies of Filler.
Filler == [rcept_no |-> "F", rcept_dt |-> <<9>>, report_nm |-> QUARTERLY]

PadSet == {0, page_count - 1, page_count}

Responses ==
    { [http |-> h, status |-> "", head |-> <<>>, pad |-> 0] :
        h \in {"timeout", "error"} }
    \cup
    { [http |-> "ok", status |-> s, head |-> hd, pad |-> p] :
        s \in {"000", "013"}, hd \in SeqsUpTo(ItemSet, MaxHead), p \in PadSet }

ListLen(r) == Len(r.head) + r.pad

\* Python's str > str: lexicographic, a proper prefix is smaller.
RECURSIVE StrGreater(_, _)
StrGreater(a, b) ==
    IF a = <<>> THEN FALSE
    ELSE IF b = <<>> THEN TRUE
    ELSE IF Head(a) # Head(b) THEN Head(a) > Head(b)
    ELSE StrGreater(Tail(a), Tail(b))

\* A slip: every filtered item replaces best, whatever its date.
RECURSIVE UpdateBestLastWins(_, _)
UpdateBestLastWins(b, its) ==
    IF its = <<>> THEN b ELSE UpdateBestLastWins(Head(its), Tail(its))

\* lines 119-121
RECURSIVE UpdateBest(_, _)
UpdateBest(b, its) ==
    IF its = <<>> THEN b
    ELSE LET it == Head(its)
             nb == IF b = None \/ StrGreater(it.rcept_dt, b.rcept_dt)
                   THEN it ELSE b
         IN  UpdateBest(nb, Tail(its))

\* line 118 on the run-length page: the filtered head, then the fillers that pass
PageItems(r) ==
    FilterItems(r.head) \o
    (IF r.pad > 0 THEN FilterItems(<<Filler>>) ELSE <<>>)

\* A slip: raise_for_status forgotten, only the timeout raises.
RaisesOnlyTimeout(r) == r.http = "timeout"

\* lines 113-114: requests.get raises on a timeout, raise_for_status on non-2xx
Raises(r) == r.http # "ok"

\* A slip: a page of exactly page_count items counts as short.
ShortPageInclusive(r) == ListLen(r) <= page_count

\* line 122
ShortPage(r) == ListLen(r) < page_count

Summary(r) == [http |-> r.http, status |-> r.status, n |-> ListLen(r)]

IdleDiscover ==
    /\ pc = "idle"
    /\ page_no = 0
    /\ best = None
    /\ requests = <<>>
    /\ responses = <<>>
    /\ fetched = {}
    /\ result = <<>>
    /\ dl_pc = "idle"
    /\ dl_requests = <<>>
    /\ dl_responses = <<>>

InitDiscover ==
    /\ pc = "request"
    /\ page_no = 1
    /\ best = None
    /\ requests = <<>>
    /\ responses = <<>>
    /\ fetched = {}
    /\ result = <<>>
    /\ dl_pc = "idle"
    /\ dl_requests = <<>>
    /\ dl_responses = <<>>

\* lines 105-113: the GET of one page
SendRequest ==
    /\ pc = "request"
    /\ page_no <= MaxPages
    /\ requests' = Append(requests, [page_no |-> page_no, page_count |-> page_count])
    /\ pc' = "wait"
    /\ UNCHANGED <<page_no, best, responses, fetched, result,
                   dl_pc, dl_requests, dl_responses, notD>>

\* lines 126-128
Finish(b) ==
    IF b = None
    THEN pc' = "not_found" /\ result' = <<>>
    ELSE pc' = "returned" /\ result' = <<b.rcept_no, b>>

\* lines 113-128: the response of one page, to the end of the iteration
Receive(r) ==
    /\ pc = "wait"
    /\ responses' = Append(responses, Summary(r))
    /\ IF Raises(r)
       THEN /\ pc' = "transport_error"
            /\ UNCHANGED <<page_no, best, fetched, result>>
       ELSE IF r.status # "000"
       THEN /\ Finish(best)
            /\ UNCHANGED <<page_no, best, fetched>>
       ELSE /\ best' = UpdateBest(best, PageItems(r))
            /\ fetched' = fetched \cup
                 {it \in {r.head[i] : i \in 1..Len(r.head)}
                         \cup (IF r.pad > 0 THEN {Filler} ELSE {}) :
                     /\ Occurs(it.report_nm, BUSINESS_REPORT)
                     /\ ~Occurs(it.report_nm, AMENDMENT)}
            /\ IF ShortPage(r)
               THEN Finish(best') /\ UNCHANGED page_no
               ELSE /\ page_no' = page_no + 1
                    /\ pc' = "request"
                    /\ UNCHANGED result
    /\ UNCHANGED <<requests, dl_pc, dl_requests, dl_responses, notD>>

(***************************************************************************)
(* download_document_zip (opendart_ingest.py:130-137), called with the     *)
(* receipt id that discovery returned.                                     *)
(***************************************************************************)
DownloadSend ==
    /\ pc = "returned"
    /\ dl_pc = "idle"
    /\ dl_requests' = Append(dl_requests, [rcept_no |-> result[1]])
    /\ dl_pc' = "wait"
    /\ UNCHANGED <<pc, page_no, best, requests, responses, fetched, result,
                   dl_responses, notD>>

DownloadReceive(h) ==
    /\ dl_pc = "wait"
    /\ dl_responses' = Append(dl_responses, h)
    /\ dl_pc' = IF h = "ok" THEN "returned" ELSE "transport_error"
    /\ UNCHANGED <<pc, page_no, best, requests, responses, fetched, result,
                   dl_requests, notD>>

(***************************************************************************)
(* choose_main_entry (opendart_parse.py:17-36)                             *)
(***************************************************************************)
MaxNames == 3

\* str.lower() on the tokens in use; Hangul and punctuation are unchanged.
Lower(c) ==
    CASE c = "A" -> "a"
      [] c = "H" -> "h"
      [] c = "T" -> "t"
      [] c = "M" -> "m"
      [] c = "L" -> "l"
      [] c = "X" -> "x"
      [] c = "G" -> "g"
      [] c = "E" -> "e"
      [] OTHER -> c

LowerStr(s) == [i \in 1..Len(s) |-> Lower(s[i])]

\* [a-z0-9] among the tokens in use
AlnumLower == {"a", "b", "d", "f", "h", "l", "m", "p", "r", "t", "x", "1"}

HTML == <<"h", "t", "m", "l">>
HTM == <<"h", "t", "m">>
XML == <<"x", "m", "l">>
BODY_TEXT == <<"bon", "mun">>

\* line 21
pri_ext == <<HTML, HTM, XML>>

\* n.lower().startswith(rcept_no.lower())
StartsWithCI(n, prefix) == StartsAt(LowerStr(n), LowerStr(prefix), 1)

\* re.search(r"\.(html?|xml)$", n, re.I): a dot followed, to the end of the
\* name, by one of the three extensions in any letter case.
SearchMarkupExt(n) ==
    \E i \in 1..Len(n) :
        /\ n[i] = "."
        /\ LowerStr(SubSeq(n, i + 1, Len(n))) \in {HTML, HTM, XML}

\* re.search(r"(...|...)", n) for the two Hangul markers (no re.I, and the
\* markers have no letter case)
SearchMarker(n) == Contains(n, BUSINESS_REPORT) \/ Contains(n, BODY_TEXT)

\* lines 23-24: the group of re.search(r"\.([a-z0-9]+)$", n.lower()), or ""
ExtOf(n) ==
    LET nl == LowerStr(n)
        I == {i \in 1..(Len(nl) - 1) :
                /\ nl[i] = "."
                /\ \A k \in (i + 1)..Len(nl) : nl[k] \in AlnumLower}
    IN  IF I = {} THEN <<>>
        ELSE SubSeq(nl, (CHOOSE i \in I : \A j \in I : i <= j) + 1, Len(nl))

\* A slip: the priority list read backwards.
RankReversed(n) ==
    LET ext == ExtOf(n)
    IN  IF \E k \in 1..Len(pri_ext) : pri_ext[k] = ext
        THEN Len(pri_ext) - (CHOOSE k \in 1..Len(pri_ext) : pri_ext[k] = ext)
        ELSE 999

\* lines 22-25: pri_ext.index(ext), or 999
rank(n) ==
    LET ext == ExtOf(n)
    IN  IF \E k \in 1..Len(pri_ext) : pri_ext[k] = ext
        THEN (CHOOSE k \in 1..Len(pri_ext) : pri_ext[k] = ext) - 1
        ELSE 999

\* Insertion behind every element whose key is not greater: keeps equal keys
\* in their order.
RECURSIVE InsertByRank(_, _)
InsertByRank(sorted, n) ==
    IF sorted = <<>> THEN <<n>>
    ELSE IF rank(Head(sorted)) <= rank(n)
         THEN <<Head(sorted)>> \o InsertByRank(Tail(sorted), n)
         ELSE <<n>> \o sorted

\* line 36: sorted(cands, key=rank), a stable sort
RECURSIVE SortedByRank(_)
SortedByRank(cands) ==
    IF cands = <<>> THEN <<>>
    ELSE InsertByRank(SortedByRank(SubSeq(cands, 1, Len(cands) - 1)),
                      cands[Len(cands)])

NoEntry == [found |-> FALSE, name |-> <<>>]

\* A slip: the second tier is consulted although the first has candidates.
ChooseMainEntryTier2First(ns, id) ==
    LET t1 == SelectSeq(ns, LAMBDA n : StartsWithCI(n, id) /\ SearchMarkupExt(n))
        t2 == SelectSeq(ns, LAMBDA n : SearchMarker(n) /\ SearchMarkupExt(n))
        t3 == SelectSeq(ns, SearchMarkupExt)
        c == IF t2 # <<>> THEN t2 ELSE IF t1 # <<>> THEN t1 ELSE t3
    IN  IF c = <<>> THEN NoEntry
        ELSE [found |-> TRUE, name |-> SortedByRank(c)[1]]

\* lines 26-36
choose_main_entry(ns, id) ==
    LET t1 == SelectSeq(ns, LAMBDA n : StartsWithCI(n, id) /\ SearchMarkupExt(n))
        t2 == SelectSeq(ns, LAMBDA n : SearchMarker(n) /\ SearchMarkupExt(n))
        t3 == SelectSeq(ns, SearchMarkupExt)
        c == IF t1 # <<>> THEN t1 ELSE IF t2 # <<>> THEN t2 ELSE t3
    IN  IF c = <<>> THEN NoEntry
        ELSE [found |-> TRUE, name |-> SortedByRank(c)[1]]

\* Entry names of an archive: a1.html, A1.XML, a1.htm, a1.pdf, A1_.html,
\* b.xml, b.html, x<business report>.htm, <body text>.xml, r.txt
NameSet ==
    { <<"a", "1", ".", "h", "t", "m", "l">>,
      <<"A", "1", ".", "X", "M", "L">>,
      <<"a", "1", ".", "h", "t", "m">>,
      <<"a", "1", ".", "p", "d", "f">>,
      <<"A", "1", "_", ".", "h", "t", "m", "l">>,
      <<"b", ".", "x", "m", "l">>,
      <<"b", ".", "h", "t", "m", "l">>,
      <<"x", "sa", "eop", "bo", "go", "seo", ".", "h", "t", "m">>,
      <<"bon", "mun", ".", "x", "m", "l">>,
      <<"r", ".", "t", "x", "t">> }

\* Receipt ids: A1, a non-matching one, and the empty string
IdSet == { <<"A", "1">>, <<"9">>, <<>> }

IdleEntry ==
    /\ names = <<>>
    /\ rcept_no = <<>>
    /\ entry = NoEntry
    /\ e_pc = "idle"

InitEntry ==
    /\ names \in SeqsUpTo(NameSet, MaxNames)
    /\ rcept_no \in IdSet
    /\ entry = NoEntry
    /\ e_pc = "start"

ChooseMainEntry ==
    /\ e_pc = "start"
    /\ entry' = choose_main_entry(names, rcept_no)
    /\ e_pc' = "done"
    /\ UNCHANGED <<names, rcept_no, notE>>

(***************************************************************************)
(* load_corp_codes, get_corp_code_from_df, get_corp_code_by_name and       *)
(* get_latest_business_report_by_corp_name (opendart_ingest.py:20-94)      *)
(***************************************************************************)
MaxEntries == 2
MaxCalls == 2

IsSpace(c) == c = " "

\* str.strip()
RECURSIVE LStrip(_)
LStrip(s) == IF s # <<>> /\ IsSpace(Head(s)) THEN LStrip(Tail(s)) ELSE s

RECURSIVE RStrip(_)
RStrip(s) ==
    IF s # <<>> /\ IsSpace(s[Len(s)]) THEN RStrip(SubSeq(s, 1, Len(s) - 1)) ELSE s

Strip(s) == RStrip(LStrip(s))

\* <list> elements of the reference file: LG, lg, LGE, " LG " crossed with
\* codes 1, 2 and " 1".  The three other child texts play no part in a lookup.
RawNames ==
    { <<"L", "G">>, <<"l", "g">>, <<"L", "G", "E">>, <<" ", "L", "G", " ">> }

RawCodes == { <<"1">>, <<"2">>, <<" ", "1">> }

ListElements == [corp_code : RawCodes, corp_name : RawNames]

RefFiles ==
    { [state |-> st, list |-> <<>>] : st \in {"missing", "malformed"} }
    \cup
    { [state |-> "ok", list |-> l] : l \in SeqsUpTo(ListElements, MaxEntries) }

Queries == { <<"L", "G">>, <<"l", "g">>, <<"L">> }

EmptyDF == <<>>

\* line 31: ET.parse on the reference file
EtParse(file) ==
    IF file.state = "missing" THEN [exc |-> "FileNotFoundError", list |-> <<>>]
    ELSE IF file.state = "malformed" THEN [exc |-> "ParseError", list |-> <<>>]
    ELSE [exc |-> "", list |-> file.list]

\* lines 35-45
BuildDF(list) ==
    [i \in 1..Len(list) |->
        [corp_code |-> Strip(list[i].corp_code),
         corp_name |-> Strip(list[i].corp_name)]]

\* A slip: only the missing file is caught.
LoadCorpCodesOnlyMissingCaught(file) ==
    LET p == EtParse(file)
    IN  IF p.exc = "" THEN [exc |-> "", df |-> BuildDF(p.list)]
        ELSE IF p.exc = "FileNotFoundError" THEN [exc |-> "", df |-> EmptyDF]
        ELSE [exc |-> p.exc, df |-> EmptyDF]

\* lines 30-52: except FileNotFoundError, then except Exception
load_corp_codes(file) ==
    LET p == EtParse(file)
    IN  IF p.exc = "" THEN [exc |-> "", df |-> BuildDF(p.list)]
        ELSE IF p.exc = "FileNotFoundError" THEN [exc |-> "", df |-> EmptyDF]
        ELSE [exc |-> "", df |-> EmptyDF]

NoCode == [found |-> FALSE, code |-> <<>>]

\* A slip: company names compared without regard to letter case.
GetCorpCodeIgnoringCase(df, name) ==
    LET hit == SelectSeq(df, LAMBDA row : LowerStr(row.corp_name) = LowerStr(name))
    IN  IF hit # <<>> THEN [found |-> TRUE, code |-> hit[1].corp_code] ELSE NoCode

\* lines 54-56
get_corp_code_from_df(df, name) ==
    LET hit == SelectSeq(df, LAMBDA row : row.corp_name = name)
    IN  IF hit # <<>> THEN [found |-> TRUE, code |-> hit[1].corp_code] ELSE NoCode

\* lines 91: `not corp_code` is true of None and of the empty string
Falsy(code) == ~code.found \/ code.code = <<>>

IdleRegistry ==
    /\ ref_file = [state |-> "missing", list |-> <<>>]
    /\ corp_name = <<>>
    /\ corp_df = EmptyDF
    /\ corp_code = NoCode
    /\ r_pc = "idle"
    /\ r_requests = <<>>
    /\ calls = 0
    /\ loads = 0

InitRegistry ==
    /\ ref_file \in RefFiles
    /\ corp_name \in Queries
    /\ corp_df = EmptyDF
    /\ corp_code = NoCode
    /\ r_pc = "start"
    /\ r_requests = <<>>
    /\ calls = 1
    /\ loads = 0

\* line 69, in get_corp_code_by_name
LoadCorpCodes ==
    /\ r_pc = "start"
    /\ LET out == load_corp_codes(ref_file)
       IN  /\ corp_df' = out.df
           /\ r_pc' = IF out.exc = "" THEN "loaded" ELSE "load_raised"
    /\ loads' = loads + 1
    /\ UNCHANGED <<ref_file, corp_name, corp_code, r_requests, calls, notR>>

\* lines 70-72, the rest of get_corp_code_by_name
LookupCode ==
    /\ r_pc = "loaded"
    /\ corp_code' = IF corp_df = EmptyDF THEN NoCode
                    ELSE get_corp_code_from_df(corp_df, corp_name)
    /\ r_pc' = "looked_up"
    /\ UNCHANGED <<ref_file, corp_name, corp_df, r_requests, calls, loads, notR>>

\* lines 91-94
CheckCode ==
    /\ r_pc = "looked_up"
    /\ r_pc' = IF Falsy(corp_code) THEN "not_found" ELSE "listing"
    /\ UNCHANGED <<ref_file, corp_name, corp_df, corp_code, r_requests, calls,
                   loads, notR>>

\* line 94 into lines 102-113: the first listing request of the call; the
\* listing itself is explored under SpecDiscover
FirstListingRequest ==
    /\ r_pc = "listing"
    /\ r_requests' = Append(r_requests,
                        [corp_code |-> corp_code.code, page_no |-> 1,
                         page_count |-> page_count])
    /\ r_pc' = "listing_wait"
    /\ UNCHANGED <<ref_file, corp_name, corp_df, corp_code, calls, loads, notR>>

\* The caller calls get_latest_business_report_by_corp_name again; nothing of
\* the previous call is kept.
NewCall ==
    /\ r_pc \in {"not_found", "listing_wait", "load_raised"}
    /\ calls < MaxCalls
    /\ calls' = calls + 1
    /\ corp_name' \in Queries
    /\ corp_df' = EmptyDF
    /\ corp_code' = NoCode
    /\ r_requests' = <<>>
    /\ r_pc' = "start"
    /\ UNCHANGED <<ref_file, loads, notR>>

(***************************************************************************)
(* _decode_kr and extract_text_from_zip_entry (opendart_parse.py:6-50)     *)
(***************************************************************************)
\* The bytes of an entry are given by what each codec makes of them: a text
\* or UnicodeDecodeError.  Decoding with "ignore" cannot fail.
DecodeResults == {"UnicodeDecodeError", "T1", "T2"}

DataSet == [cp949 : DecodeResults, euc_kr : DecodeResults, utf_8 : DecodeResults]

NoData == [cp949 |-> "", euc_kr |-> "", utf_8 |-> ""]

\* data.decode(enc)
DecodeStrict(d, enc) ==
    IF d[enc] = "UnicodeDecodeError"
    THEN [exc |-> "UnicodeDecodeError", value |-> ""]
    ELSE [exc |-> "", value |-> d[enc]]

\* data.decode("utf-8", "ignore")
DecodeIgnore(d) ==
    IF d.utf_8 = "UnicodeDecodeError"
    THEN [exc |-> "", value |-> "T_lossy"]
    ELSE [exc |-> "", value |-> d.utf_8]

\* A slip: the universal encoding is tried first.
EncodingsUtf8First == <<"utf_8", "cp949", "euc_kr">>

\* line 10
Encodings == <<"cp949", "euc_kr", "utf_8">>

\* lines 10-15
RECURSIVE DecodeFrom(_, _)
DecodeFrom(d, k) ==
    IF k > Len(Encodings) THEN DecodeIgnore(d)
    ELSE LET r == DecodeStrict(d, Encodings[k])
         IN  IF r.exc = "" THEN r
             ELSE IF r.exc = "UnicodeDecodeError" THEN DecodeFrom(d, k + 1)
             ELSE r

decode_kr(d) == DecodeFrom(d, 1)

IdleExtract ==
    /\ x_pc = "idle"
    /\ zf = "unopened"
    /\ data = NoData
    /\ txt = ""
    /\ root = "unset"
    /\ html_called = FALSE
    /\ text = ""
    /\ exc = ""

InitExtract ==
    /\ x_pc = "start"
    /\ zf = "unopened"
    /\ data = NoData
    /\ txt = ""
    /\ root = "unset"
    /\ html_called = FALSE
    /\ text = ""
    /\ exc = ""

\* line 42: zipfile.ZipFile(io.BytesIO(zip_bytes)), entering the with block
OpenArchive(ok) ==
    /\ x_pc = "start"
    /\ IF ok
       THEN zf' = "open" /\ x_pc' = "opened" /\ UNCHANGED exc
       ELSE zf' = "unopened" /\ x_pc' = "raised" /\ exc' = "BadZipFile"
    /\ UNCHANGED <<data, txt, root, html_called, text, notX>>

\* line 43 and the end of the with block: the handle is closed on both paths
ReadEntry(d, ok) ==
    /\ x_pc = "opened"
    /\ zf' = "closed"
    /\ IF ok
       THEN data' = d /\ x_pc' = "decode" /\ UNCHANGED exc
       ELSE data' = data /\ x_pc' = "raised" /\ exc' = "KeyError"
    /\ UNCHANGED <<txt, root, html_called, text, notX>>

\* line 44
Decode ==
    /\ x_pc = "decode"
    /\ LET r == decode_kr(data)
       IN  IF r.exc = ""
           THEN txt' = r.value /\ x_pc' = "parse_xml" /\ UNCHANGED exc
           ELSE txt' = txt /\ x_pc' = "raised" /\ exc' = r.exc
    /\ UNCHANGED <<zf, data, root, html_called, text, notX>>

\* What etree.fromstring with XMLParser(recover=True) makes of the text: a
\* root element, None (a recovered document without a root element), or an
\* XMLSyntaxError.
XmlOutcomes == {"element", "None", "XMLSyntaxError"}

\* lines 45-48
ParseXml(o) ==
    /\ x_pc = "parse_xml"
    /\ root' = o
    /\ IF o = "element"
       THEN text' = "itertext" /\ x_pc' = "done" /\ UNCHANGED exc
       ELSE IF o = "None"
       THEN \* root.itertext() on None; not an XMLSyntaxError, so not caught
            text' = text /\ x_pc' = "raised" /\ exc' = "AttributeError"
       ELSE text' = text /\ x_pc' = "parse_html" /\ UNCHANGED exc
    /\ UNCHANGED <<zf, data, txt, html_called, notX>>

\* lines 49-50: lxml.html.fromstring returns an element or raises
ParseHtml(ok) ==
    /\ x_pc = "parse_html"
    /\ html_called' = TRUE
    /\ IF ok
       THEN text' = "text_content" /\ x_pc' = "done" /\ UNCHANGED exc
       ELSE text' = text /\ x_pc' = "raised" /\ exc' = "ParserError"
    /\ UNCHANGED <<zf, data, txt, root, notX>>

(***************************************************************************)
(* Properties of _is_business_report, checked under SpecClassify           *)
(***************************************************************************)
Qualifies(nm) == Occurs(nm, BUSINESS_REPORT) /\ ~Occurs(nm, AMENDMENT)

\* C4: _is_business_report(title) is true iff the title contains the report
\* marker and contains the amendment marker nowhere; the four literal titles
\* get true, false, false, false; the page filter keeps exactly those items.
C4_IsBusinessReportIff ==
    c_pc = "done" =>
        /\ verdict = Qualifies(report_nm)
        /\ kept = (IF Qualifies(report_nm) THEN <<TitleItem(report_nm)>> ELSE <<>>)
        /\ report_nm = BUSINESS_REPORT => verdict
        /\ report_nm = BUSINESS_REPORT \o AMENDMENT => ~verdict
        /\ report_nm = AMENDMENT \o BUSINESS_REPORT => ~verdict
        /\ report_nm = QUARTERLY => ~verdict

C4_Witness ==
    /\ c_pc = "done"
    /\ report_nm = AMENDMENT \o BUSINESS_REPORT
    /\ ~verdict
    /\ kept = <<>>

(***************************************************************************)
(* Properties of discovery and download, checked under SpecDiscover        *)
(***************************************************************************)
Terminal == {"returned", "not_found", "transport_error"}

FullSuccess(s) == s.http = "ok" /\ s.status = "000" /\ s.n >= 100

\* C1: a returned call yields (rcept_no, item) with item a qualifying item of
\* a fetched success page and no fetched qualifying item has a strictly
\* greater rcept_dt; "not found" is raised exactly when no fetched success
\* page held a qualifying item.
C1_LatestQualifyingItem ==
    /\ pc = "returned" =>
          /\ Len(result) = 2
          /\ result[1] = result[2].rcept_no
          /\ result[2] \in fetched
          /\ \A q \in fetched : ~StrGreater(q.rcept_dt, result[2].rcept_dt)
    /\ pc = "not_found" => fetched = {} /\ result = <<>>
    /\ pc \in {"returned", "not_found"} => (pc = "not_found" <=> fetched = {})

C1_Witness ==
    /\ pc = "returned"
    /\ Len(responses) = 2
    /\ Cardinality(fetched) >= 2
    /\ \E q \in fetched : StrGreater(result[2].rcept_dt, q.rcept_dt)
    /\ responses[2].n < 100

\* C7: the requests carry page numbers 1, 2, 3, ... and page size 100; a
\* further page is requested iff the last response had status "000" and at
\* least 100 unfiltered items; after any other response the call has ended.
C7_Pagination ==
    /\ \A i \in 1..Len(requests) :
          requests[i] = [page_no |-> i, page_count |-> 100]
    /\ Len(requests) = Len(responses) + (IF pc = "wait" THEN 1 ELSE 0)
    /\ pc = "request" => page_no = Len(requests) + 1
    /\ \A i \in 1..Len(responses) :
          FullSuccess(responses[i]) <=>
              (i < Len(requests) \/ (i = Len(requests) /\ pc = "request"))
    /\ (responses # <<>> /\ ~FullSuccess(responses[Len(responses)]))
          => pc \in Terminal

C7_Witness ==
    /\ pc \in Terminal
    /\ Len(requests) = 2
    /\ responses[1].n = 100
    /\ responses[2].n = 99
    /\ responses[2].status = "000"

\* C8: a transport failure of a listing request ends the call with that
\* error: it is the last response, its page is not requested again, no result
\* and no "not found" come out, whatever was found before; the download
\* issues one request and propagates its transport error.
C8_TransportErrorPropagates ==
    /\ \A i \in 1..Len(responses) :
          responses[i].http # "ok" =>
              /\ i = Len(responses)
              /\ Len(requests) = i
              /\ pc = "transport_error"
              /\ result = <<>>
    /\ \A i, j \in 1..Len(requests) :
          i # j => requests[i].page_no # requests[j].page_no
    /\ Len(dl_requests) <= 1
    /\ dl_pc \in {"wait", "returned", "transport_error"} => Len(dl_requests) = 1
    /\ \A i \in 1..Len(dl_responses) :
          /\ dl_responses[i] # "ok" => dl_pc = "transport_error"
          /\ dl_responses[i] = "ok" => dl_pc = "returned"

C8_Witness ==
    /\ pc = "transport_error"
    /\ best # None
    /\ Len(requests) = 2
    /\ responses[2].http = "error"

(***************************************************************************)
(* Properties of choose_main_entry, checked under SpecEntry                *)
(***************************************************************************)
EndsWithCI(n, suffix) ==
    /\ Len(n) >= Len(suffix)
    /\ LowerStr(SubSeq(n, Len(n) - Len(suffix) + 1, Len(n))) = suffix

HasMarkupExt(n) == \E e \in {HTML, HTM, XML} : EndsWithCI(n, <<".">> \o e)

\* 1, 2, 3 for html, htm, xml
ExtPriority(n) ==
    IF EndsWithCI(n, <<".">> \o HTML) THEN 1
    ELSE IF EndsWithCI(n, <<".">> \o HTM) THEN 2
    ELSE 3

Tier1 ==
    {i \in 1..Len(names) :
        /\ HasMarkupExt(names[i])
        /\ Len(names[i]) >= Len(rcept_no)
        /\ LowerStr(SubSeq(names[i], 1, Len(rcept_no))) = LowerStr(rcept_no)}

Tier2 ==
    {i \in 1..Len(names) :
        /\ HasMarkupExt(names[i])
        /\ (Occurs(names[i], BUSINESS_REPORT) \/ Occurs(names[i], BODY_TEXT))}

Tier3 == {i \in 1..Len(names) : HasMarkupExt(names[i])}

WinningTier ==
    IF Tier1 # {} THEN Tier1 ELSE IF Tier2 # {} THEN Tier2 ELSE Tier3

\* C2: the result is a name of the first non-empty tier (receipt-id prefix,
\* then marker, then any markup extension), each tier over the names with a
\* markup extension; it is absent exactly when no name has a markup extension.
C2_ThreeTierSearch ==
    e_pc = "done" =>
        /\ entry.found <=> Tier3 # {}
        /\ entry.found => \E i \in WinningTier : entry.name = names[i]
        /\ ~entry.found => entry = NoEntry

C2_Witness ==
    /\ e_pc = "done"
    /\ Tier1 = {}
    /\ Tier2 # {}
    /\ Tier3 # Tier2
    /\ \E i \in Tier3 \ Tier2 : \A j \in Tier2 : i < j /\ ExtPriority(names[i]) < ExtPriority(names[j])
    /\ entry.found

\* C3: within the winning tier the result has the best extension in the order
\* html > htm > xml and, among the candidates with that extension, is the
\* one that comes first in the input list.
C3_ExtensionPriorityStable ==
    (e_pc = "done" /\ WinningTier # {}) =>
        LET W == WinningTier
            bestp == CHOOSE p \in {ExtPriority(names[i]) : i \in W} :
                        \A i \in W : p <= ExtPriority(names[i])
            first == CHOOSE i \in W :
                        /\ ExtPriority(names[i]) = bestp
                        /\ \A j \in W : ExtPriority(names[j]) = bestp => i <= j
        IN  /\ entry.found
            /\ entry.name = names[first]

C3_Witness ==
    /\ e_pc = "done"
    /\ \E i, j, k \in WinningTier :
          /\ i < j /\ j < k
          /\ ExtPriority(names[i]) > ExtPriority(names[j])
          /\ ExtPriority(names[j]) = ExtPriority(names[k])
          /\ names[j] # names[k]
          /\ \A m \in WinningTier : ExtPriority(names[j]) <= ExtPriority(names[m])
          /\ entry.name = names[j]

(***************************************************************************)
(* Properties of the registry lookup, checked under SpecRegistry           *)
(***************************************************************************)
AfterLookup == {"looked_up", "not_found", "listing", "listing_wait"}

Matching == {i \in 1..Len(corp_df) : corp_df[i].corp_name = corp_name}

\* C5: the lookup returns the code of the first row, in table order, whose
\* company name equals the queried name exactly, and is absent when no row's
\* name equals it; the code of a row with another name is never returned.
C5_FirstExactMatch ==
    r_pc \in AfterLookup =>
        /\ Matching = {} => corp_code = NoCode
        /\ Matching # {} =>
              /\ corp_code.found
              /\ \A i \in Matching :
                    (\A j \in Matching : i <= j) => corp_code.code = corp_df[i].corp_code

C5_Witness ==
    /\ r_pc \in AfterLookup
    /\ Len(corp_df) = 2
    /\ corp_name = <<"L", "G">>
    /\ corp_df[1].corp_name = <<"l", "g">>
    /\ corp_df[2].corp_name = <<"L", "G">>
    /\ corp_df[1].corp_code # corp_df[2].corp_code
    /\ corp_code.code = corp_df[2].corp_code

\* The reference file gives no company of the queried name (names as loaded,
\* that is trimmed).
NoSuchCompany ==
    \/ ref_file.state # "ok"
    \/ \A i \in 1..Len(ref_file.list) : Strip(ref_file.list[i].corp_name) # corp_name

\* C6: load_corp_codes never raises and gives an empty table for a missing or
\* malformed file; when the file is missing, malformed, empty or without the
\* queried name, the by-name lookup is absent and the by-name report call
\* raises "not found" with no listing request issued; every by-name call
\* loads the reference file once.
C6_SoftFailingLoad ==
    /\ r_pc # "load_raised"
    /\ (r_pc \notin {"start", "idle"} /\ ref_file.state # "ok") => corp_df = EmptyDF
    /\ (r_pc \in AfterLookup /\ NoSuchCompany) => corp_code = NoCode
    /\ (r_pc \in AfterLookup \ {"looked_up"} /\ NoSuchCompany) =>
          r_pc = "not_found" /\ r_requests = <<>>
    /\ r_pc = "not_found" => r_requests = <<>>
    /\ loads = (IF r_pc = "start" THEN calls - 1 ELSE calls)

C6_Witness ==
    /\ r_pc = "not_found"
    /\ ref_file.state = "malformed"
    /\ calls = 2
    /\ loads = 2

(***************************************************************************)
(* Properties of decoding and extraction, checked under SpecExtract        *)
(***************************************************************************)
Decoded == {"parse_xml", "parse_html", "done"}

Valid(enc) == data[enc] # "UnicodeDecodeError"

\* C9: _decode_kr never raises; it returns the decoding of the first of
\* cp949, euc-kr, utf-8 that succeeds, and the utf-8 decoding with the
\* undecodable bytes dropped only when all three fail; bytes that only one
\* legacy code page decodes come out as that code page decodes them.
C9_DecodeOrder ==
    /\ exc # "UnicodeDecodeError"
    /\ x_pc \in Decoded \/ (x_pc = "raised" /\ root # "unset") =>
          /\ Valid("cp949") => txt = data.cp949
          /\ (~Valid("cp949") /\ Valid("euc_kr")) => txt = data.euc_kr
          /\ (~Valid("cp949") /\ ~Valid("euc_kr") /\ Valid("utf_8")) => txt = data.utf_8
          /\ (~Valid("cp949") /\ ~Valid("euc_kr") /\ ~Valid("utf_8")) => txt = "T_lossy"

C9_Witness ==
    /\ x_pc = "parse_xml"
    /\ ~Valid("cp949")
    /\ Valid("euc_kr")
    /\ Valid("utf_8")
    /\ data.euc_kr # data.utf_8
    /\ txt = data.euc_kr

\* C10: the text of the structured parse is returned when that parse
\* succeeds; the HTML parser is invoked iff the structured parse raised a
\* syntax error; after decoding has started only the HTML parser's own
\* exception can propagate; the archive handle is closed before decoding
\* starts and on every exit path.
C10_TwoStageParse ==
    /\ (x_pc = "done" /\ ~html_called) => (root = "element" /\ text = "itertext")
    /\ html_called => root = "XMLSyntaxError"
    /\ (root = "XMLSyntaxError" /\ x_pc \in {"done", "raised"}) => html_called
    /\ (x_pc = "raised" /\ exc \notin {"BadZipFile", "KeyError"}) =>
          (html_called /\ exc = "ParserError")
    /\ x_pc \in Decoded \cup {"decode"} => zf = "closed"
    /\ x_pc = "raised" => zf # "open"

\* The part of C10 on the archive handle alone.
ArchiveClosedOutsideWith ==
    /\ x_pc \in Decoded \cup {"decode"} => zf = "closed"
    /\ x_pc = "raised" => zf # "open"
    /\ zf = "open" <=> x_pc = "opened"

(***************************************************************************)
(* Specifications                                                          *)
(***************************************************************************)
InitC == InitClassify /\ IdleDiscover /\ IdleEntry /\ IdleRegistry /\ IdleExtract

NextClassify == Classify

SpecClassify == InitC /\ [][NextClassify]_vars

InitD == InitDiscover /\ IdleClassify /\ IdleEntry /\ IdleRegistry /\ IdleExtract

ReceiveAny == \E r \in Responses : Receive(r)

DownloadReceiveAny == \E h \in {"ok", "error", "timeout"} : DownloadReceive(h)

NextDiscover ==
    \/ SendRequest
    \/ ReceiveAny
    \/ DownloadSend
    \/ DownloadReceiveAny

SpecDiscover == InitD /\ [][NextDiscover]_vars

InitE == InitEntry /\ IdleClassify /\ IdleDiscover /\ IdleRegistry /\ IdleExtract

NextEntry == ChooseMainEntry

SpecEntry == InitE /\ [][NextEntry]_vars

InitR == InitRegistry /\ IdleClassify /\ IdleDiscover /\ IdleEntry /\ IdleExtract

NextRegistry ==
    \/ LoadCorpCodes
    \/ LookupCode
    \/ CheckCode
    \/ FirstListingRequest
    \/ NewCall

SpecRegistry == InitR /\ [][NextRegistry]_vars

InitX == InitExtract /\ IdleClassify /\ IdleDiscover /\ IdleEntry /\ IdleRegistry

OpenArchiveAny == \E ok \in BOOLEAN : OpenArchive(ok)

ReadEntryAny == \E d \in DataSet, ok \in BOOLEAN : ReadEntry(d, ok)

ParseXmlAny == \E o \in XmlOutcomes : ParseXml(o)

ParseHtmlAny == \E ok \in BOOLEAN : ParseHtml(ok)

NextExtract ==
    \/ OpenArchiveAny
    \/ ReadEntryAny
    \/ Decode
    \/ ParseXmlAny
    \/ ParseHtmlAny

SpecExtract == InitX /\ [][NextExtract]_vars

====
